---- MODULE Spec2Model ----
(***************************************************************************)
(* Registration and quiz backend (src/unnamed/part_000, src/server.js).    *)
(*                                                                         *)
(* Every HTTP handler is an async function: between two awaits it runs     *)
(* alone (one Node.js thread), and each awaited database operation is      *)
(* atomic on its document.  An action below is one database operation of   *)
(* a handler together with the synchronous code that follows it up to the  *)
(* next await.  Requests in flight occupy the slots of req; handlers of    *)
(* different requests interleave at their awaits.                          *)
(*                                                                         *)
(* Document.save() of an existing document sends $set for the paths the    *)
(* handler assigned a value different from the loaded one and for nothing  *)
(* else; the versioned where-clause (__v) never fails here because no      *)
(* handler pushes to or pulls from an array.                               *)
(***************************************************************************)
EXTENDS Integers, Sequences, FiniteSets, TLC

\* ------------------------------------------------------------ bounds
NumPhones == 2
MaxRegistrations == 2
MaxSessions == 2
MaxInflight == 2
MaxTicks == 1
MaxRequests == 4
NumQuestions == 2
MaxSelection == 2
NumRecipients == 2
MaxRecipients == 2
NumProcesses == 2

\* ------------------------------------------------- program constants
TimeLimit == 1200000
Null == -1

\* correctAnswer of the first questions of the literal set
SeedCorrectAnswers == <<2, 1, 2, 0>>

\* one clock step: just past the time limit
TickMs == TimeLimit + 1

Phones == 1..NumPhones
Slots == 1..MaxInflight
RegistrationIds == 1..(MaxRegistrations + 1)
SessionIds == 1..(MaxSessions + 1)
QuestionIds == 1..(NumQuestions + 1)
Selections == 1..MaxSelection

VARIABLES
  registrations,  \* Registration collection, in insertion order
  nextRegId,      \* next _id of a Registration
  questions,      \* Question collection, in insertion order
  sessions,       \* QuizSession collection; a session's _id is its index
  now,            \* wall clock, ms
  seedPc,         \* per server process: position of its startup call of initializeQuestions
  req,            \* requests in flight: slot -> handler position and locals
  issued,         \* number of requests that have been in flight
  resp,           \* the response sent by the last step, NoResp when it sent none
  emailLogs,      \* EmailLog collection, in insertion order
  outbox          \* the messages handed to transporter.sendMail, in order

vars ==
  <<registrations, nextRegId, questions, sessions, now, seedPc, req, issued, resp,
    emailLogs, outbox>>

\* ------------------------------------------------------------ helpers
NoLoad ==
  [status |-> "none", score |-> 0, completedAt |-> Null, timeTaken |-> Null,
   selectedAnswer |-> Null, isCorrect |-> FALSE]

\* what a request saw when it began or loaded its document: kept for the properties,
\* never read by a handler
NoPre ==
  [terminal |-> FALSE, active |-> 0, flagged |-> 0, answered |-> 0,
   recipients |-> <<>>, passes |-> FALSE]

Idle ==
  [kind |-> "idle", pc |-> "idle", phone |-> 0, sid |-> 0, qid |-> 0,
   sel |-> Null, as |-> "none", t |-> 0, qs |-> <<>>, ld |-> NoLoad,
   score |-> 0, isCorrect |-> FALSE, pre |-> NoPre]

NoBody == [status |-> "none", score |-> 0, totalQuestions |-> 0]

NoResp ==
  [kind |-> "none", code |-> 0, msg |-> "none", status |-> "none", phone |-> 0, sid |-> 0,
   qid |-> 0, sel |-> Null, isCorrect |-> FALSE, session |-> NoBody, pre |-> NoPre,
   data |-> <<>>, answers |-> <<>>]

Indices(s) == 1..Len(s)

\* Model.findOne(filter): the first document, in insertion order, among the
\* matching ones (given by their indices); 0 when none matches
First(matching) ==
  IF matching = {} THEN 0 ELSE CHOOSE k \in matching : \A j \in matching : k <= j

RemoveAt(s, k) == [j \in 1..(Len(s) - 1) |-> IF j < k THEN s[j] ELSE s[j + 1]]

\* the existence check finding nothing
RegistrationByPhone_NoneFound(phone) == 0

RegistrationByPhone(phone) ==
  First({k \in Indices(registrations) : registrations[k].phoneNumber = phone})

\* an :id that is no ObjectId: the query's cast of it throws (CastError)
MalformedId == 0

IsObjectId(id) == id # MalformedId

RegistrationById(id) ==
  First({k \in Indices(registrations) : registrations[k].id = id})

\* a new request takes the first free slot
Busy(i) == i # First({j \in Slots : req[j].kind = "idle"})

\* slot i takes request r, which goes on to its next await
Accept(i, r) ==
  /\ issued < MaxRequests
  /\ issued' = issued + 1
  /\ req' = [req EXCEPT ![i] = r]
  /\ resp' = NoResp
  /\ UNCHANGED <<emailLogs, outbox>>

\* the request is answered from its first database operation
Reply(r) ==
  /\ resp' = r
  /\ UNCHANGED <<req, issued, emailLogs, outbox>>

\* the request in slot i moves to its next await
Continue(i, r) ==
  /\ req' = [req EXCEPT ![i] = r]
  /\ resp' = NoResp
  /\ UNCHANGED <<issued, emailLogs, outbox>>

\* the request in slot i is answered
Finish(i, r) ==
  /\ req' = [req EXCEPT ![i] = Idle]
  /\ resp' = r
  /\ UNCHANGED <<issued, emailLogs, outbox>>

\* ------------------------------------------ POST /api/registrations
PendingRegistrations == Cardinality({j \in Slots : req[j].kind = "register"})

\* validationResult(req), then await Registration.findOne({ phoneNumber })
PostRegistration(i, phone, valid) ==
  /\ ~Busy(i)
  /\ IF ~valid
     THEN Reply([NoResp EXCEPT !.kind = "register", !.code = 400,
                               !.msg = "Validation failed", !.phone = phone])
     ELSE LET existingRegistration == RegistrationByPhone(phone) IN
          IF existingRegistration # 0
          THEN Reply([NoResp EXCEPT !.kind = "register", !.code = 400,
                                    !.msg = "Phone number already registered",
                                    !.phone = phone])
          ELSE /\ (nextRegId - 1) + PendingRegistrations < MaxRegistrations
               /\ Accept(i, [Idle EXCEPT !.kind = "register", !.pc = "save", !.phone = phone])
  /\ UNCHANGED <<registrations, nextRegId, questions, sessions, now, seedPc>>

\* await registration.save()
PostRegistrationSave(i) ==
  /\ req[i].kind = "register" /\ req[i].pc = "save"
  /\ registrations' = Append(registrations, [id |-> nextRegId, phoneNumber |-> req[i].phone])
  /\ nextRegId' = nextRegId + 1
  /\ Finish(i, [NoResp EXCEPT !.kind = "register", !.code = 201,
                              !.msg = "Registration successful!",
                              !.phone = req[i].phone, !.sid = nextRegId])
  /\ UNCHANGED <<questions, sessions, now, seedPc>>

\* --------------------------------------- PUT /api/registrations/:id
\* validationResult(req), then await Registration.findByIdAndUpdate(id, req.body, ...)
PutRegistration(i, id, phone, valid) ==
  /\ ~Busy(i)
  /\ IF ~valid
     THEN /\ Reply([NoResp EXCEPT !.kind = "update", !.code = 400,
                                  !.msg = "Validation failed", !.phone = phone, !.sid = id])
          /\ UNCHANGED registrations
     ELSE IF ~IsObjectId(id)
     THEN /\ Reply([NoResp EXCEPT !.kind = "update", !.code = 500,
                                  !.msg = "Error updating registration",
                                  !.phone = phone, !.sid = id])
          /\ UNCHANGED registrations
     ELSE LET k == RegistrationById(id) IN
          IF k = 0
          THEN /\ Reply([NoResp EXCEPT !.kind = "update", !.code = 404,
                                       !.msg = "Registration not found",
                                       !.phone = phone, !.sid = id])
               /\ UNCHANGED registrations
          ELSE /\ registrations' = [registrations EXCEPT ![k].phoneNumber = phone]
               /\ Reply([NoResp EXCEPT !.kind = "update", !.code = 200,
                                       !.msg = "Registration updated successfully",
                                       !.phone = phone, !.sid = id])
  /\ UNCHANGED <<nextRegId, questions, sessions, now, seedPc>>

\* ------------------------------------ DELETE /api/registrations/:id
\* await Registration.findByIdAndDelete(req.params.id)
DeleteRegistration(i, id) ==
  /\ ~Busy(i)
  /\ IF ~IsObjectId(id)
     THEN /\ Reply([NoResp EXCEPT !.kind = "delete", !.code = 500,
                                  !.msg = "Error deleting registration", !.sid = id])
          /\ UNCHANGED registrations
     ELSE
     LET k == RegistrationById(id) IN
     IF k = 0
     THEN /\ Reply([NoResp EXCEPT !.kind = "delete", !.code = 404,
                                  !.msg = "Registration not found", !.sid = id])
          /\ UNCHANGED registrations
     ELSE /\ registrations' = RemoveAt(registrations, k)
          /\ Reply([NoResp EXCEPT !.kind = "delete", !.code = 200,
                                  !.msg = "Registration deleted successfully", !.sid = id])
  /\ UNCHANGED <<nextRegId, questions, sessions, now, seedPc>>

\* --------------------------------------------- POST /api/send-bulk-email
\* what require('nodemailer') exports
NodemailerExports == {"createTransport", "createTestAccount", "getTestMessageUrl"}

\* createTransporter(): both branches call nodemailer.createTransporter, and calling a
\* property the module does not export throws a TypeError
CreateTransporter ==
  IF "createTransporter" \in NodemailerExports THEN "transporter" ELSE "TypeError"

Recipients == 1..NumRecipients
RecipientLists == UNION {[1..n -> Recipients] : n \in 0..MaxRecipients}

\* validationResult(req), the configuration test, then createTransporter(): it throws,
\* the handler's catch answers 500, and the code after the call (transporter.verify(),
\* the send loop, emailLog.save()) is not reached.  fieldsValid: subject, message and
\* every recipient's email and name pass; configured: the EMAIL_ variables are set and
\* the server they name would accept the transport
SendBulkEmail(i, recipients, fieldsValid, configured) ==
  /\ ~Busy(i)
  /\ LET answered(code, msg) ==
           Reply([NoResp EXCEPT
                    !.kind = "bulk", !.code = code, !.msg = msg,
                    !.pre = [NoPre EXCEPT
                               !.recipients = recipients,
                               !.passes = fieldsValid /\ Len(recipients) >= 1 /\ configured]])
     IN
     IF ~(fieldsValid /\ Len(recipients) >= 1)
     THEN answered(400, "Validation failed")
     ELSE IF ~configured
     THEN answered(500, "Email configuration not found")
     ELSE /\ CreateTransporter = "TypeError"
          /\ answered(500, "Error sending bulk emails")
  /\ UNCHANGED <<registrations, nextRegId, questions, sessions, now, seedPc>>

\* ------------------------------------------------------------- clock
Tick ==
  /\ now < MaxTicks * TickMs
  /\ now' = now + TickMs
  /\ resp' = NoResp
  /\ UNCHANGED <<registrations, nextRegId, questions, sessions, seedPc, req, issued,
                 emailLogs, outbox>>

\* ------------------------------------------------ initializeQuestions
Processes == 1..NumProcesses

\* the literal question set, as insertMany stores it: the k-th question (its text is
\* k) gets a fresh _id and the k-th correctAnswer
QuestionSeed ==
  [k \in 1..NumQuestions |->
     [id |-> Len(questions) + k, question |-> k,
      correctAnswer |-> SeedCorrectAnswers[k], active |-> TRUE]]

\* a server process starts (again): initializeQuestions() is called, not awaited
Startup(p) ==
  /\ seedPc[p] \in {"off", "done"}
  /\ seedPc' = [seedPc EXCEPT ![p] = "count"]
  /\ resp' = NoResp
  /\ UNCHANGED <<registrations, nextRegId, questions, sessions, now, req, issued,
                 emailLogs, outbox>>

\* const existingQuestions = await Question.countDocuments(); if (> 0) return
InitializeQuestionsCount(p) ==
  /\ seedPc[p] = "count"
  /\ seedPc' = [seedPc EXCEPT ![p] = IF Len(questions) > 0 THEN "done" ELSE "insert"]
  /\ resp' = NoResp
  /\ UNCHANGED <<registrations, nextRegId, questions, sessions, now, req, issued,
                 emailLogs, outbox>>

\* await Question.insertMany(questions)
InitializeQuestionsInsert(p) ==
  /\ seedPc[p] = "insert"
  /\ questions' = questions \o QuestionSeed
  /\ seedPc' = [seedPc EXCEPT ![p] = "done"]
  /\ resp' = NoResp
  /\ UNCHANGED <<registrations, nextRegId, sessions, now, req, issued, emailLogs, outbox>>

\* ------------------------------------------------------ quiz helpers
IsTerminal(status) == status \in {"completed", "timeout"}

SessionsOf(phone) == {k \in Indices(sessions) : sessions[k].phoneNumber = phone}
TerminalOf(phone) == {k \in SessionsOf(phone) : IsTerminal(sessions[k].status)}
ActiveOf(phone) == {k \in SessionsOf(phone) : sessions[k].status = "active"}
Flagged(answers) == {k \in Indices(answers) : answers[k].isCorrect}
Answered(answers) == {k \in Indices(answers) : answers[k].selectedAnswer # Null}

\* QuizSession.findOne({ phoneNumber })
FindSession(phone) ==
  First({k \in Indices(sessions) : sessions[k].phoneNumber = phone})

\* the terminal-session query without 'timeout' in its $in list
FindTerminalSession_CompletedOnly(phone) ==
  First({k \in Indices(sessions) :
           sessions[k].phoneNumber = phone /\ sessions[k].status \in {"completed"}})

\* QuizSession.findOne({ phoneNumber, status: { $in: ['completed', 'timeout'] } })
FindTerminalSession(phone) ==
  First({k \in Indices(sessions) :
           sessions[k].phoneNumber = phone /\ sessions[k].status \in {"completed", "timeout"}})

\* QuizSession.findOne({ phoneNumber, status: 'active' })
FindActiveSession(phone) ==
  First({k \in Indices(sessions) :
           sessions[k].phoneNumber = phone /\ sessions[k].status = "active"})

QuestionById(id) == First({k \in Indices(questions) : questions[k].id = id})

\* questions.sort(() => 0.5 - Math.random()): some permutation of the array
Orders(s) ==
  {p \in [Indices(s) -> Indices(s)] : \A a, b \in Indices(s) : p[a] = p[b] => a = b}

\* a shuffle that repeats one element in every place
Shuffled_Repeating(s, p) == [k \in Indices(s) |-> s[p[1]]]

Shuffled(s, p) == [k \in Indices(s) |-> s[p[k]]]

\* the score as the number of answered entries
CorrectCount_Answered(answers) == Len(SelectSeq(answers, LAMBDA a : a.selectedAnswer # Null))

\* session.answers.filter(a => a.isCorrect).length
CorrectCount(answers) == Len(SelectSeq(answers, LAMBDA a : a.isCorrect))

\* session.answers.findIndex(a => a.questionId.toString() === questionId)
\* a lookup that takes the first entry whatever its question
AnswerIndex_First(answers, questionId) == IF answers = <<>> THEN 0 ELSE 1

AnswerIndex(answers, questionId) ==
  First({k \in Indices(answers) : answers[k].questionId = questionId})

\* what a response shows of a session document
View(doc) ==
  [status |-> doc.status, score |-> doc.score, totalQuestions |-> doc.totalQuestions]

\* new QuizSession({...}): the schema defaults fill what the handler leaves out
NewSession(phone, startTime, shuffledQuestions) ==
  [phoneNumber |-> phone,
   startTime |-> startTime,
   answers |-> [k \in Indices(shuffledQuestions) |->
                  [questionId |-> shuffledQuestions[k].id,
                   selectedAnswer |-> Null,
                   isCorrect |-> FALSE]],
   score |-> 0,
   totalQuestions |-> Len(shuffledQuestions),
   status |-> "active",
   completedAt |-> Null,
   timeTaken |-> Null]

\* ------------------------------------------------ POST /api/quiz/start
\* starts that found no session and are on their way to session.save()
CreatingSessions ==
  Cardinality({j \in Slots : req[j].kind = "start" /\ req[j].pc \in {"questions", "save"}})

\* const registration = await Registration.findOne({ phoneNumber })
StartQuiz(i, phone) ==
  /\ ~Busy(i)
  /\ IF RegistrationByPhone(phone) = 0
     THEN Reply([NoResp EXCEPT !.kind = "start", !.code = 404,
                               !.msg = "User not registered", !.phone = phone])
     ELSE Accept(i, [Idle EXCEPT !.kind = "start", !.pc = "terminal", !.phone = phone,
                                 !.pre = [NoPre EXCEPT !.terminal = TerminalOf(phone) # {},
                                                       !.active = First(ActiveOf(phone))]])
  /\ UNCHANGED <<registrations, nextRegId, questions, sessions, now, seedPc>>

\* const existingSession = await QuizSession.findOne({ phoneNumber, status: { $in: [...] } })
StartFindTerminal(i) ==
  /\ req[i].kind = "start" /\ req[i].pc = "terminal"
  /\ LET existingSession == FindTerminalSession(req[i].phone) IN
     IF existingSession # 0
     THEN Finish(i, [NoResp EXCEPT !.kind = "start", !.code = 400,
                                   !.msg = "Quiz attempt already completed",
                                   !.phone = req[i].phone, !.sid = existingSession,
                                   !.session = View(sessions[existingSession]),
                                   !.pre = req[i].pre])
     ELSE Continue(i, [req[i] EXCEPT !.pc = "active"])
  /\ UNCHANGED <<registrations, nextRegId, questions, sessions, now, seedPc>>

\* const activeSession = await QuizSession.findOne({ phoneNumber, status: 'active' })
StartFindActive(i) ==
  /\ req[i].kind = "start" /\ req[i].pc = "active"
  /\ LET activeSession == FindActiveSession(req[i].phone) IN
     IF activeSession # 0
     THEN Finish(i, [NoResp EXCEPT !.kind = "start", !.code = 200,
                                   !.msg = "Resuming existing quiz session",
                                   !.phone = req[i].phone, !.sid = activeSession,
                                   !.session = View(sessions[activeSession]),
                                   !.pre = req[i].pre])
     ELSE /\ Len(sessions) + CreatingSessions < MaxSessions
          /\ Continue(i, [req[i] EXCEPT !.pc = "questions"])
  /\ UNCHANGED <<registrations, nextRegId, questions, sessions, now, seedPc>>

\* const questions = await Question.find({ active: true }); shuffle; new QuizSession({...})
StartFindQuestions(i, p) ==
  /\ req[i].kind = "start" /\ req[i].pc = "questions"
  /\ LET found == SelectSeq(questions, LAMBDA q : q.active) IN
     /\ p \in Orders(found)
     /\ Continue(i, [req[i] EXCEPT !.pc = "save", !.qs = Shuffled(found, p), !.t = now])
  /\ UNCHANGED <<registrations, nextRegId, questions, sessions, now, seedPc>>

\* await session.save()
StartSave(i) ==
  /\ req[i].kind = "start" /\ req[i].pc = "save"
  /\ LET session == NewSession(req[i].phone, req[i].t, req[i].qs) IN
     /\ sessions' = Append(sessions, session)
     /\ Finish(i, [NoResp EXCEPT !.kind = "start", !.code = 200,
                                 !.msg = "Quiz session started successfully",
                                 !.phone = req[i].phone, !.sid = Len(sessions) + 1,
                                 !.session = View(session), !.pre = req[i].pre])
  /\ UNCHANGED <<registrations, nextRegId, questions, now, seedPc>>

\* ------------------------------------------------ completeQuizSession
\* Document.save(): a path is sent ($set) when the value assigned to it differs from
\* the value the document was loaded with; otherwise the stored value stays
\* a save that sends nothing
Saved_Nothing(assigned, loaded, stored) == stored

Saved(assigned, loaded, stored) == IF assigned # loaded THEN assigned ELSE stored

\* const session = await QuizSession.findById(sessionId), then the synchronous code up
\* to session.save(): the slot's locals once the session is loaded
Completing(r, sid, status) ==
  LET session == sessions[sid] IN
  [r EXCEPT !.pc = "cSave", !.sid = sid, !.as = status,
            !.score = CorrectCount(session.answers),
            !.t = now,
            !.ld = [NoLoad EXCEPT !.status = session.status, !.score = session.score,
                                  !.completedAt = session.completedAt,
                                  !.timeTaken = session.timeTaken],
            !.pre = [NoPre EXCEPT !.flagged = Cardinality(Flagged(session.answers)),
                                  !.answered = Cardinality(Answered(session.answers))]]

\* await session.save() in completeQuizSession, and what its caller does next
CompleteQuizSessionSave(i) ==
  /\ req[i].pc = "cSave"
  /\ LET r == req[i]
         stored == sessions[r.sid]
         timeTaken == r.t - stored.startTime
     IN
     /\ sessions' = [sessions EXCEPT ![r.sid] =
                       [stored EXCEPT
                          !.status = Saved(r.as, r.ld.status, @),
                          !.score = Saved(r.score, r.ld.score, @),
                          !.completedAt = Saved(r.t, r.ld.completedAt, @),
                          !.timeTaken = Saved(timeTaken, r.ld.timeTaken, @)]]
     /\ IF r.kind = "submit"
        THEN Finish(i, [NoResp EXCEPT !.kind = "submit", !.code = 200,
                                      !.msg = "Quiz submitted successfully", !.sid = r.sid,
                                      !.session = [status |-> r.as, score |-> r.score,
                                                   totalQuestions |-> stored.totalQuestions],
                                      !.pre = r.pre])
        ELSE Continue(i, [r EXCEPT !.pc = "refetch"])
  /\ UNCHANGED <<registrations, nextRegId, questions, now, seedPc>>

\* ----------------------------------------------- POST /api/quiz/submit
\* const session = await completeQuizSession(sessionId, 'completed'): its findById
SubmitQuiz(i, sid) ==
  /\ ~Busy(i)
  /\ IF sid \notin Indices(sessions)
     THEN Reply([NoResp EXCEPT !.kind = "submit", !.code = 404,
                               !.msg = "Quiz session not found", !.sid = sid])
     ELSE Accept(i, Completing([Idle EXCEPT !.kind = "submit"], sid, "completed"))
  /\ UNCHANGED <<registrations, nextRegId, questions, sessions, now, seedPc>>

\* ------------------------------------ GET /api/quiz/session/:phoneNumber
Max(a, b) == IF a >= b THEN a ELSE b

\* const session = await QuizSession.findOne({ phoneNumber }).populate(...), then the
\* timeout test
GetSession(i, phone) ==
  /\ ~Busy(i)
  /\ LET session == FindSession(phone) IN
     IF session = 0
     THEN Reply([NoResp EXCEPT !.kind = "session", !.code = 200,
                               !.msg = "No active quiz session found", !.phone = phone])
     ELSE LET timeElapsed == now - sessions[session].startTime
              timeRemaining == Max(0, TimeLimit - timeElapsed)
          IN
          IF timeRemaining <= 0 /\ sessions[session].status = "active"
          THEN Accept(i, [Idle EXCEPT !.kind = "session", !.pc = "cFind", !.phone = phone,
                                      !.sid = session])
          ELSE Reply([NoResp EXCEPT !.kind = "session", !.code = 200,
                                    !.msg = "session", !.phone = phone, !.sid = session,
                                    !.session = View(sessions[session])])
  /\ UNCHANGED <<registrations, nextRegId, questions, sessions, now, seedPc>>

\* await completeQuizSession(session._id, 'timeout'): its findById
GetSessionComplete(i) ==
  /\ req[i].kind = "session" /\ req[i].pc = "cFind"
  /\ Continue(i, Completing(req[i], req[i].sid, "timeout"))
  /\ UNCHANGED <<registrations, nextRegId, questions, sessions, now, seedPc>>

\* session: await QuizSession.findById(session._id), in the timeout response
GetSessionRefetch(i) ==
  /\ req[i].kind = "session" /\ req[i].pc = "refetch"
  /\ Finish(i, [NoResp EXCEPT !.kind = "session", !.code = 200,
                              !.msg = "Quiz session has timed out", !.status = "timeout",
                              !.phone = req[i].phone, !.sid = req[i].sid,
                              !.session = View(sessions[req[i].sid])])
  /\ UNCHANGED <<registrations, nextRegId, questions, sessions, now, seedPc>>

\* ----------------------------------------------- POST /api/quiz/answer
\* const session = await QuizSession.findById(sessionId), the status test, findIndex
SubmitAnswer(i, sid, questionId, selectedAnswer) ==
  /\ ~Busy(i)
  /\ LET failed(code, msg) ==
           Reply([NoResp EXCEPT !.kind = "answer", !.code = code, !.msg = msg, !.sid = sid])
     IN
     IF sid \notin Indices(sessions)
     THEN failed(404, "Quiz session not found")
     ELSE IF sessions[sid].status # "active"
     THEN failed(400, "Quiz session is not active")
     ELSE LET answerIndex == AnswerIndex(sessions[sid].answers, questionId) IN
          IF answerIndex = 0
          THEN failed(400, "Question not found in session")
          ELSE Accept(i, [Idle EXCEPT
                            !.kind = "answer", !.pc = "question", !.sid = sid,
                            !.qid = questionId, !.sel = selectedAnswer,
                            !.ld = [NoLoad EXCEPT
                                      !.selectedAnswer =
                                         sessions[sid].answers[answerIndex].selectedAnswer,
                                      !.isCorrect =
                                         sessions[sid].answers[answerIndex].isCorrect]])
  /\ UNCHANGED <<registrations, nextRegId, questions, sessions, now, seedPc>>

\* const question = await Question.findById(questionId); isCorrect = ... === ...
SubmitAnswerFindQuestion(i) ==
  /\ req[i].kind = "answer" /\ req[i].pc = "question"
  /\ LET question == QuestionById(req[i].qid) IN
     IF question = 0
     THEN Finish(i, [NoResp EXCEPT !.kind = "answer", !.code = 500,
                                   !.msg = "Error submitting answer", !.sid = req[i].sid])
     ELSE Continue(i, [req[i] EXCEPT
                         !.pc = "save",
                         !.isCorrect = (req[i].sel = questions[question].correctAnswer)])
  /\ UNCHANGED <<registrations, nextRegId, questions, sessions, now, seedPc>>

\* session.answers[answerIndex] = ...; await session.save()
SubmitAnswerSave(i) ==
  /\ req[i].kind = "answer" /\ req[i].pc = "save"
  /\ LET r == req[i]
         answerIndex == AnswerIndex(sessions[r.sid].answers, r.qid)
     IN
     sessions' = [sessions EXCEPT ![r.sid].answers[answerIndex] =
                    [@ EXCEPT !.selectedAnswer = Saved(r.sel, r.ld.selectedAnswer, @),
                              !.isCorrect = Saved(r.isCorrect, r.ld.isCorrect, @)]]
  /\ Finish(i, [NoResp EXCEPT !.kind = "answer", !.code = 200,
                              !.msg = "Answer submitted successfully", !.sid = req[i].sid,
                              !.qid = req[i].qid, !.sel = req[i].sel,
                              !.isCorrect = req[i].isCorrect])
  /\ UNCHANGED <<registrations, nextRegId, questions, now, seedPc>>

\* ------------------------------------------------ GET /api/quiz/results
\* ((score / totalQuestions) * 100).toFixed(2): the quotient in exact arithmetic, in
\* hundredths of a percent rounded to the nearest (a tie goes up); 0 / 0 is NaN and
\* n / 0 is Infinity, which toFixed prints as they are
Percentage(score, totalQuestions) ==
  IF totalQuestions = 0
  THEN [kind |-> IF score = 0 THEN "NaN" ELSE "Infinity", hundredths |-> 0]
  ELSE [kind |-> "number",
        hundredths |-> (2 * score * 10000 + totalQuestions) \div (2 * totalQuestions)]

\* one entry of the formatted results
FormattedResult(result) ==
  [phoneNumber |-> result.phoneNumber, score |-> result.score,
   totalQuestions |-> result.totalQuestions,
   percentage |-> Percentage(result.score, result.totalQuestions),
   status |-> result.status]

\* QuizSession.find({ status: { $in: [...] } }).sort({ completedAt: -1 }): the terminal
\* sessions, latest first; p is the order the database returns them in
GetResults(p) ==
  /\ LET results == SelectSeq(sessions, LAMBDA d : d.status \in {"completed", "timeout"}) IN
     /\ p \in Orders(results)
     /\ \A a, b \in Indices(results) :
          a < b => results[p[a]].completedAt >= results[p[b]].completedAt
     /\ Reply([NoResp EXCEPT
                 !.kind = "results", !.code = 200, !.msg = "results",
                 !.data = [k \in Indices(results) |-> FormattedResult(results[p[k]])]])
  /\ UNCHANGED <<registrations, nextRegId, questions, sessions, now, seedPc>>

\* ---------------------------------- GET /api/quiz/result/:phoneNumber
GetResult(phone) ==
  /\ LET result == FindTerminalSession(phone) IN
     IF result = 0
     THEN Reply([NoResp EXCEPT !.kind = "result", !.code = 404,
                               !.msg = "No quiz result found for this user",
                               !.phone = phone])
     ELSE Reply([NoResp EXCEPT !.kind = "result", !.code = 200, !.msg = "result",
                               !.phone = phone, !.sid = result,
                               !.data = <<FormattedResult(sessions[result])>>])
  /\ UNCHANGED <<registrations, nextRegId, questions, sessions, now, seedPc>>

\* ---------------------------------- GET /api/quiz/questions/:sessionId
\* .populate('answers.questionId'): every entry's questionId replaced by the Question
\* document of that _id in the collection bank
Populated(answers, bank) ==
  [k \in Indices(answers) |->
     [questionId |-> bank[First({j \in Indices(bank) : bank[j].id = answers[k].questionId})],
      selectedAnswer |-> answers[k].selectedAnswer,
      isCorrect |-> answers[k].isCorrect]]

\* the response for a session that was found, over the Question collection bank: the
\* questions view and the populated session document
QuestionsResponse(sid, session, bank) ==
  LET populated == Populated(session.answers, bank) IN
  IF session.status # "active"
  THEN [NoResp EXCEPT !.kind = "questions", !.code = 200,
                      !.msg = "Quiz session is no longer active", !.sid = sid,
                      !.session = View(session), !.answers = populated]
  ELSE [NoResp EXCEPT !.kind = "questions", !.code = 200, !.msg = "questions", !.sid = sid,
                      !.data = [k \in Indices(populated) |->
                                  [id |-> populated[k].questionId.id,
                                   selectedAnswer |-> populated[k].selectedAnswer]],
                      !.session = View(session), !.answers = populated]

\* const session = await QuizSession.findById(req.params.sessionId).populate(...)
GetQuestions(sid) ==
  /\ IF sid \notin Indices(sessions)
     THEN Reply([NoResp EXCEPT !.kind = "questions", !.code = 404,
                               !.msg = "Quiz session not found", !.sid = sid])
     ELSE Reply(QuestionsResponse(sid, sessions[sid], questions))
  /\ UNCHANGED <<registrations, nextRegId, questions, sessions, now, seedPc>>

\* --------------------------------------------------- specifications
Init ==
  /\ registrations = <<>>
  /\ nextRegId = 1
  /\ questions = <<>>
  /\ sessions = <<>>
  /\ now = 0
  /\ seedPc = [p \in Processes |-> "off"]
  /\ req = [i \in Slots |-> Idle]
  /\ issued = 0
  /\ resp = NoResp
  /\ emailLogs = <<>>
  /\ outbox = <<>>

RegistrationNext ==
  \/ \E i \in Slots, phone \in Phones, valid \in BOOLEAN : PostRegistration(i, phone, valid)
  \/ \E i \in Slots : PostRegistrationSave(i)
  \/ \E i \in Slots, id \in RegistrationIds \cup {MalformedId}, phone \in Phones,
         valid \in BOOLEAN : PutRegistration(i, id, phone, valid)
  \/ \E i \in Slots, id \in RegistrationIds \cup {MalformedId} : DeleteRegistration(i, id)

\* the registration handlers alone
RegistrationSpec == Init /\ [][RegistrationNext]_vars

\* the registrations the quiz handlers run over: phone 1 registered, phone 2 not
QuizInit ==
  /\ registrations = <<[id |-> 1, phoneNumber |-> 1]>>
  /\ nextRegId = 2
  /\ questions = <<>>
  /\ sessions = <<>>
  /\ now = 0
  /\ seedPc = [p \in Processes |-> IF p = 1 THEN "count" ELSE "off"]
  /\ req = [i \in Slots |-> Idle]
  /\ issued = 0
  /\ resp = NoResp
  /\ emailLogs = <<>>
  /\ outbox = <<>>

QuizNext ==
  \/ \E p \in Processes : InitializeQuestionsCount(p)
  \/ \E p \in Processes : InitializeQuestionsInsert(p)
  \/ \E i \in Slots, phone \in Phones : StartQuiz(i, phone)
  \/ \E i \in Slots : StartFindTerminal(i)
  \/ \E i \in Slots : StartFindActive(i)
  \/ \E i \in Slots, p \in [1..NumQuestions -> 1..NumQuestions] \cup {<<>>} :
       StartFindQuestions(i, p)
  \/ \E i \in Slots : StartSave(i)
  \/ \E i \in Slots, phone \in Phones : GetSession(i, phone)
  \/ \E i \in Slots : GetSessionComplete(i)
  \/ \E i \in Slots : GetSessionRefetch(i)
  \/ \E i \in Slots : CompleteQuizSessionSave(i)
  \/ \E i \in Slots, sid \in SessionIds : SubmitQuiz(i, sid)
  \/ \E i \in Slots, sid \in SessionIds, q \in QuestionIds, a \in Selections :
       SubmitAnswer(i, sid, q, a)
  \/ \E i \in Slots : SubmitAnswerFindQuestion(i)
  \/ \E i \in Slots : SubmitAnswerSave(i)
  \/ Tick

\* the quiz handlers
QuizSpec == QuizInit /\ [][QuizNext]_vars

\* the handlers of src/server.js: registrations and the bulk email
EmailNext ==
  \/ \E i \in Slots, phone \in Phones, valid \in BOOLEAN : PostRegistration(i, phone, valid)
  \/ \E i \in Slots : PostRegistrationSave(i)
  \/ \E i \in Slots, id \in RegistrationIds \cup {MalformedId}, phone \in Phones,
         valid \in BOOLEAN : PutRegistration(i, id, phone, valid)
  \/ \E i \in Slots, id \in RegistrationIds \cup {MalformedId} : DeleteRegistration(i, id)
  \/ \E i \in Slots, recipients \in RecipientLists, fieldsValid \in BOOLEAN,
         configured \in BOOLEAN : SendBulkEmail(i, recipients, fieldsValid, configured)

EmailSpec == Init /\ [][EmailNext]_vars

\* server processes starting, with the registration handlers they serve
SeedNext ==
  \/ \E p \in Processes : Startup(p)
  \/ \E p \in Processes : InitializeQuestionsCount(p)
  \/ \E p \in Processes : InitializeQuestionsInsert(p)
  \/ \E i \in Slots, phone \in Phones, valid \in BOOLEAN : PostRegistration(i, phone, valid)
  \/ \E i \in Slots : PostRegistrationSave(i)
  \/ \E i \in Slots, id \in RegistrationIds \cup {MalformedId}, phone \in Phones,
         valid \in BOOLEAN : PutRegistration(i, id, phone, valid)
  \/ \E i \in Slots, id \in RegistrationIds \cup {MalformedId} : DeleteRegistration(i, id)

SeedSpec == Init /\ [][SeedNext]_vars

\* the quiz handlers together with the two result views
ResultsNext ==
  \/ QuizNext
  \/ \E p \in [1..MaxSessions -> 1..MaxSessions] \cup [1..1 -> 1..1] \cup {<<>>} : GetResults(p)
  \/ \E phone \in Phones : GetResult(phone)

ResultsSpec == QuizInit /\ [][ResultsNext]_vars

\* starting, answering, submitting and fetching the questions of a session
QuestionsNext ==
  \/ \E p \in Processes : InitializeQuestionsCount(p)
  \/ \E p \in Processes : InitializeQuestionsInsert(p)
  \/ \E i \in Slots, phone \in Phones : StartQuiz(i, phone)
  \/ \E i \in Slots : StartFindTerminal(i)
  \/ \E i \in Slots : StartFindActive(i)
  \/ \E i \in Slots, p \in [1..NumQuestions -> 1..NumQuestions] \cup {<<>>} :
       StartFindQuestions(i, p)
  \/ \E i \in Slots : StartSave(i)
  \/ \E i \in Slots, sid \in SessionIds, questionId \in QuestionIds,
         selectedAnswer \in Selections : SubmitAnswer(i, sid, questionId, selectedAnswer)
  \/ \E i \in Slots : SubmitAnswerFindQuestion(i)
  \/ \E i \in Slots : SubmitAnswerSave(i)
  \/ \E i \in Slots, sid \in SessionIds : SubmitQuiz(i, sid)
  \/ \E i \in Slots : CompleteQuizSessionSave(i)
  \/ \E sid \in SessionIds : GetQuestions(sid)

QuestionsSpec == QuizInit /\ [][QuestionsNext]_vars

\* ---------------------------------------------------------- properties
\* the slot whose handler takes this step
Acts(i) == req'[i] # req[i]

\* C1: no two stored registrations have the same phoneNumber.
C1_UniquePhoneNumber ==
  \A a, b \in Indices(registrations) :
    a # b => registrations[a].phoneNumber # registrations[b].phoneNumber

\* C2: at most one QuizSession with status 'active' for each phone number.
C2_OneActiveSessionPerPhone ==
  \A phone \in Phones : Cardinality(ActiveOf(phone)) <= 1

\* C3: at most one QuizSession with status 'completed' or 'timeout' for each phone
\* number.
C3_OneTerminalSessionPerPhone ==
  \A phone \in Phones : Cardinality(TerminalOf(phone)) <= 1

\* C4: once a session's status is 'completed' or 'timeout', no later request changes
\* its status, score, completedAt or timeTaken.
C4_TerminalIsFinal ==
  [][\A k \in Indices(sessions) :
       IsTerminal(sessions[k].status) =>
         /\ sessions'[k].status = sessions[k].status
         /\ sessions'[k].score = sessions[k].score
         /\ sessions'[k].completedAt = sessions[k].completedAt
         /\ sessions'[k].timeTaken = sessions[k].timeTaken]_vars

\* C5: for a registered phone number that already has an active session, POST
\* /api/quiz/start returns that same session with success, creates no new QuizSession
\* and changes no stored state.  The session the request found active when it began
\* is taken to be still active when it is answered.
C5_IdempotentResume ==
  [][/\ (resp'.kind = "start" /\ resp'.pre.active # 0
           /\ sessions'[resp'.pre.active].status = "active")
        => /\ resp'.code = 200
           /\ resp'.msg = "Resuming existing quiz session"
           /\ resp'.sid = resp'.pre.active
     /\ \A i \in Slots :
          (Acts(i) /\ req[i].kind = "start" /\ req[i].pre.active # 0
             /\ sessions'[req[i].pre.active].status = "active")
          => sessions' = sessions]_vars

\* C6: for a registered phone number that has a session with status 'completed' or
\* 'timeout' when the request begins, POST /api/quiz/start returns 400, creates no
\* new QuizSession and leaves every existing session unchanged.
C6_StartAfterTerminalRejected ==
  [][/\ (resp'.kind = "start" /\ resp'.pre.terminal) => resp'.code = 400
     /\ \A i \in Slots :
          (Acts(i) /\ req[i].kind = "start" /\ req[i].pre.terminal)
          => sessions' = sessions]_vars

\* a start for a phone number with a timed-out session was answered 400
C6_Witness ==
  /\ resp.kind = "start" /\ resp.pre.terminal /\ resp.code = 400
  /\ resp.session.status = "timeout"

\* C7: GET /api/quiz/session/:phoneNumber on a session that is 'active' and whose
\* elapsed time exceeds 1,200,000 ms: when the request finishes the stored session has
\* status 'timeout', and the response reports status 'timeout'.
C7_ReadLeavesTimeout ==
  (resp.kind = "session" /\ resp.msg = "Quiz session has timed out")
  => /\ sessions[resp.sid].status = "timeout"
     /\ resp.status = "timeout"

\* the requests that read session k for a timeout and are still in flight
ReadsInFlight(k) == {j \in Slots : req[j].kind = "session" /\ req[j].sid = k}

Late(k) == now - sessions[k].startTime > TimeLimit

CorrectAnswerOf(questionId) ==
  (CHOOSE q \in {questions[k] : k \in Indices(questions)} : q.id = questionId).correctAnswer

EntryOf(session, questionId) ==
  CHOOSE a \in {session.answers[n] : n \in Indices(session.answers)} :
    a.questionId = questionId

\* C8: for an active session whose elapsed time exceeds 1,200,000 ms an answer is
\* still accepted and stored; once a read has timed the session out and finished,
\* every answer submission that finishes afterwards is rejected with 400 and does not
\* modify the session.
C8_AnswersAroundTimeout ==
  [][/\ \A i \in Slots :
          (Acts(i) /\ req[i].kind = "answer" /\ req'[i].kind = "idle")
          => LET k == req[i].sid IN
             /\ (sessions[k].status = "active" /\ Late(k))
                => /\ resp'.code = 200
                   /\ EntryOf(sessions'[k], req[i].qid).selectedAnswer = req[i].sel
             /\ (sessions[k].status = "timeout" /\ ReadsInFlight(k) = {})
                => /\ resp'.code = 400
                   /\ sessions' = sessions
     /\ (resp'.kind = "answer" /\ resp'.sid \in Indices(sessions)
           /\ sessions[resp'.sid].status = "timeout" /\ ReadsInFlight(resp'.sid) = {})
        => resp'.code = 400]_vars

\* C9: for an active session and a question that belongs to it, POST /api/quiz/answer
\* stores the selected index and returns and stores isCorrect = true exactly when the
\* selected index equals the question's stored correctAnswer.
C9_AnswerIsCorrectFlag ==
  [][\A i \in Slots :
       (Acts(i) /\ req[i].kind = "answer" /\ req'[i].kind = "idle"
          /\ sessions'[req[i].sid].status = "active")
       => LET entry == EntryOf(sessions'[req[i].sid], req[i].qid)
              correct == (req[i].sel = CorrectAnswerOf(req[i].qid))
          IN
          /\ resp'.code = 200
          /\ resp'.isCorrect = correct
          /\ entry.selectedAnswer = req[i].sel
          /\ entry.isCorrect = correct]_vars

\* C10: completing a session (POST /api/quiz/submit) that has N answers flagged correct
\* out of M answered questions leaves the session with score = N and
\* totalQuestions = M.
C10_ScoreAndTotalAnswered ==
  [][\A i \in Slots :
       (Acts(i) /\ req[i].kind = "submit" /\ req[i].pc = "cSave")
       => /\ sessions'[req[i].sid].score = req[i].pre.flagged
          /\ sessions'[req[i].sid].totalQuestions = req[i].pre.answered]_vars

\* C10, amended: completing a session whose document, as the submit loaded it, has N
\* answers flagged correct returns the session with score = N and stores score = N
\* when N differs from the loaded score; completion does not change totalQuestions,
\* which is the number of questions attached at start (all answer entries), whatever
\* number of them was answered.
C10_ScoreAndTotalAttached ==
  [][\A i \in Slots :
       (Acts(i) /\ req[i].kind = "submit" /\ req[i].pc = "cSave")
       => LET k == req[i].sid
              n == req[i].pre.flagged
          IN
          /\ resp'.kind = "submit" /\ resp'.code = 200
          /\ resp'.session.score = n
          /\ resp'.session.totalQuestions = Len(sessions[k].answers)
          /\ sessions'[k].totalQuestions = sessions[k].totalQuestions
          /\ sessions'[k].totalQuestions = Len(sessions'[k].answers)
          /\ IF n # req[i].ld.score
             THEN sessions'[k].score = n
             ELSE sessions'[k].score = sessions[k].score]_vars

\* a submitted session with two questions, one of them answered, and that one correct
C10_Witness ==
  /\ resp.kind = "submit" /\ resp.code = 200
  /\ resp.session.score = 1 /\ resp.session.totalQuestions = 2
  /\ sessions[resp.sid].score = 1 /\ sessions[resp.sid].totalQuestions = 2
  /\ Cardinality(Answered(sessions[resp.sid].answers)) = 1

\* C11: every terminal session reported by GET /api/quiz/results and GET
\* /api/quiz/result/:phoneNumber has a percentage that is a number, equal to
\* score / totalQuestions * 100 rounded to two decimals and between 0 and 100; its
\* totalQuestions is not 0 and its score does not exceed totalQuestions.
C11_PercentageWellDefined ==
  (resp.kind \in {"results", "result"} /\ resp.code = 200)
  => \A k \in Indices(resp.data) :
       LET entry == resp.data[k]
           h == entry.percentage.hundredths
       IN
       /\ entry.totalQuestions # 0
       /\ entry.score <= entry.totalQuestions
       /\ entry.percentage.kind = "number"
       /\ h >= 0 /\ h <= 10000
       /\ 2 * entry.totalQuestions * h - 2 * entry.score * 10000 <= entry.totalQuestions
       /\ 2 * entry.score * 10000 - 2 * entry.totalQuestions * h <= entry.totalQuestions

\* the Question collections that differ from bank at most in the correctAnswer indices
SameButCorrectAnswers(bank) ==
  {[k \in Indices(bank) |-> [bank[k] EXCEPT !.correctAnswer = c[k]]] :
     c \in [Indices(bank) -> 0..MaxSelection]}

\* C12: the response of GET /api/quiz/questions/:sessionId for an active session does
\* not reveal any question's correct answer: over a question bank that differs only in
\* its correctAnswer indices the whole response body is the same.
C12_QuestionsHideCorrectAnswer ==
  (resp.kind = "questions" /\ resp.code = 200 /\ resp.session.status = "active")
  => \A bank \in SameButCorrectAnswers(questions) :
       QuestionsResponse(resp.sid, sessions[resp.sid], bank) = resp

\* a valid POST /api/registrations for phone begins in this step: it is either
\* answered at once or goes on to its save
BeginsRegistration(phone) ==
  \/ /\ resp'.kind = "register" /\ resp'.phone = phone /\ req' = req
     /\ resp'.msg # "Validation failed"
  \/ \E i \in Slots :
       req[i].kind = "idle" /\ req'[i].kind = "register" /\ req'[i].phone = phone

\* C13: a valid POST /api/registrations for a phone number that an earlier, finished
\* POST has stored returns 400 and leaves the collection unchanged.
C13_SecondRegistrationRejected ==
  [][\A phone \in Phones :
       (BeginsRegistration(phone)
          /\ \E k \in Indices(registrations) : registrations[k].phoneNumber = phone)
       => /\ resp'.kind = "register" /\ resp'.code = 400
          /\ req' = req
          /\ registrations' = registrations]_vars

\* the second of two registrations of one phone number was answered 400
C13_Witness ==
  /\ resp.kind = "register" /\ resp.code = 400
  /\ resp.msg = "Phone number already registered"
  /\ \E k \in Indices(registrations) : registrations[k].phoneNumber = resp.phone

\* C14: DELETE /api/registrations/:id with an id that matches no stored registration
\* returns 404 and changes no registration; with an id that matches one, exactly that
\* registration is removed and all others are unchanged.
C14_DeleteRegistration ==
  [][resp'.kind = "delete"
     => IF \E k \in Indices(registrations) : registrations[k].id = resp'.sid
        THEN /\ resp'.code = 200
             /\ registrations' = SelectSeq(registrations, LAMBDA d : d.id # resp'.sid)
             /\ Len(registrations') = Len(registrations) - 1
        ELSE /\ resp'.code = 404
             /\ registrations' = registrations]_vars

\* the number of entries of a log's recipients with the given status
CountStatus(entries, status) ==
  Cardinality({k \in Indices(entries) : entries[k].status = status})

\* C15: for every bulk-email request that passes validation and transport
\* verification, the persisted EmailLog holds exactly one recipient entry per input
\* recipient, in input order, each marked 'sent' or 'failed', with successCount and
\* failureCount the numbers of 'sent' and of 'failed' entries and
\* successCount + failureCount = totalRecipients = the number of input recipients.
C15_EmailLogMatchesRecipients ==
  [][(resp'.kind = "bulk" /\ resp'.pre.passes)
     => /\ Len(emailLogs') = Len(emailLogs) + 1
        /\ LET log == emailLogs'[Len(emailLogs')]
               input == resp'.pre.recipients
           IN
           /\ Len(log.recipients) = Len(input)
           /\ \A k \in Indices(input) :
                /\ log.recipients[k].email = input[k]
                /\ log.recipients[k].status \in {"sent", "failed"}
           /\ log.successCount = CountStatus(log.recipients, "sent")
           /\ log.failureCount = CountStatus(log.recipients, "failed")
           /\ log.successCount + log.failureCount = log.totalRecipients
           /\ log.totalRecipients = Len(input)]_vars

\* C16: in a bulk-email request every recipient of the list gets exactly one send
\* attempt, the attempts are made one at a time in list order whatever their outcomes,
\* and the aggregate log entry is persisted after the last attempt.
C16_OneAttemptPerRecipient ==
  [][(resp'.kind = "bulk" /\ resp'.pre.passes)
     => LET input == resp'.pre.recipients
            made == SubSeq(outbox', Len(outbox) + 1, Len(outbox'))
        IN
        /\ Len(made) = Len(input)
        /\ \A k \in Indices(input) : made[k].to = input[k]
        /\ Len(emailLogs') = Len(emailLogs) + 1]_vars

\* C17: after any number of process startups, also interleaving ones, the Question
\* collection is empty or holds each question of the literal set exactly once; and no
\* step but the insert of initializeQuestions changes the collection.
C17_SeededOnce ==
  [][/\ \A k \in 1..NumQuestions :
          Cardinality({j \in Indices(questions') : questions'[j].question = k}) <= 1
     /\ questions' # questions
        => \E p \in Processes : seedPc[p] = "insert" /\ seedPc'[p] = "done"]_vars

\* C18: a session newly created by POST /api/quiz/start has status 'active', score 0
\* and exactly one answer entry per active Question (every question that was active
\* when the handler read the collection exactly once, in some order), each entry with
\* selectedAnswer null and isCorrect false, and totalQuestions equal to the number of
\* entries.
C18_NewSessionShape ==
  [][\A i \in Slots :
       /\ (Acts(i) /\ req[i].kind = "start" /\ req[i].pc = "questions")
          => LET active == {k \in Indices(questions) : questions[k].active}
                 found == req'[i].qs
             IN
             /\ Len(found) = Cardinality(active)
             /\ \A k \in active :
                  Cardinality({j \in Indices(found) : found[j].id = questions[k].id}) = 1
       /\ (Acts(i) /\ req[i].kind = "start" /\ req[i].pc = "save")
          => /\ Len(sessions') = Len(sessions) + 1
             /\ LET session == sessions'[Len(sessions')] IN
                /\ session.status = "active" /\ session.score = 0
                /\ session.phoneNumber = req[i].phone
                /\ Len(session.answers) = Len(req[i].qs)
                /\ \A k \in Indices(session.answers) :
                     /\ session.answers[k].questionId = req[i].qs[k].id
                     /\ session.answers[k].selectedAnswer = Null
                     /\ session.answers[k].isCorrect = FALSE
                /\ session.totalQuestions = Len(session.answers)
                /\ resp'.code = 200 /\ resp'.sid = Len(sessions')
                /\ resp'.session = View(session)]_vars

\* a session was created with both questions attached, the second one first
C18_Witness ==
  /\ resp.kind = "start" /\ resp.msg = "Quiz session started successfully"
  /\ Len(sessions[resp.sid].answers) = 2
  /\ sessions[resp.sid].answers[1].questionId = 2
  /\ sessions[resp.sid].answers[2].questionId = 1
  /\ sessions[resp.sid].totalQuestions = 2

\* C19: under any interleaving of answers with a submit or with the timeout read, a
\* session with status 'completed' or 'timeout' has score equal to the number of its
\* answer entries with isCorrect = true, and its answer entries never change after it
\* became terminal.
C19_TerminalScoreMatchesAnswers ==
  [][/\ \A k \in Indices(sessions') :
          IsTerminal(sessions'[k].status)
          => sessions'[k].score = Cardinality(Flagged(sessions'[k].answers))
     /\ \A k \in Indices(sessions) :
          IsTerminal(sessions[k].status) => sessions'[k].answers = sessions[k].answers]_vars

\* C20: every session with status 'completed' has timeTaken below 1,200,000 ms.
C20_CompletedWithinLimit ==
  \A k \in Indices(sessions) :
    sessions[k].status = "completed" => sessions[k].timeTaken < TimeLimit

\* C20, amended: POST /api/quiz/submit makes no test of the elapsed time: a session
\* the request loaded as 'active' is stored as 'completed', whatever the time since
\* startTime, with completedAt the time of the request and timeTaken the time elapsed
\* since startTime, which may be 1,200,000 ms or more.
C20_SubmitCompletesWhateverTheTime ==
  [][\A i \in Slots :
       (Acts(i) /\ req[i].kind = "submit" /\ req[i].pc = "cSave"
          /\ req[i].ld.status = "active")
       => LET k == req[i].sid IN
          /\ sessions'[k].status = "completed"
          /\ sessions'[k].completedAt = req[i].t
          /\ sessions'[k].timeTaken = req[i].t - sessions[k].startTime
          /\ resp'.kind = "submit" /\ resp'.code = 200
          /\ resp'.session.status = "completed"]_vars

\* a submit past the limit was recorded as completed
C20_Witness ==
  /\ resp.kind = "submit" /\ resp.code = 200
  /\ sessions[resp.sid].status = "completed"
  /\ sessions[resp.sid].timeTaken >= TimeLimit

\* the entries of answers that are for questionId
EntriesFor(answers, questionId) ==
  {n \in Indices(answers) : answers[n].questionId = questionId}

\* C21: a successful POST /api/quiz/answer changes only the selectedAnswer and
\* isCorrect of the single answer entry whose questionId matches the request; all other
\* entries, the session's status, score, totalQuestions, startTime and phoneNumber, and
\* every other session are unchanged, also when answers for different questions of the
\* session are in flight together.  A request for a question that is not in the
\* session, or for a session that is not active when the request reads it, is answered
\* 400 with the session unchanged.
C21_AnswerFrame ==
  [][/\ \A i \in Slots :
          /\ (Acts(i) /\ req[i].kind = "answer" /\ req'[i].kind = "idle"
                /\ resp'.code = 200)
             => LET k == req[i].sid
                    old == sessions[k]
                    new == sessions'[k]
                IN
                /\ Cardinality(EntriesFor(old.answers, req[i].qid)) = 1
                /\ Len(new.answers) = Len(old.answers)
                /\ \A n \in Indices(old.answers) :
                     /\ new.answers[n].questionId = old.answers[n].questionId
                     /\ n \notin EntriesFor(old.answers, req[i].qid)
                        => new.answers[n] = old.answers[n]
                /\ new.status = old.status /\ new.score = old.score
                /\ new.totalQuestions = old.totalQuestions
                /\ new.startTime = old.startTime /\ new.phoneNumber = old.phoneNumber
                /\ new.completedAt = old.completedAt /\ new.timeTaken = old.timeTaken
                /\ \A j \in Indices(sessions) : j # k => sessions'[j] = sessions[j]
                /\ Len(sessions') = Len(sessions)
          /\ (Acts(i) /\ req[i].kind = "answer" /\ ~(req'[i].kind = "idle" /\ resp'.code = 200))
             => sessions' = sessions
          /\ (Acts(i) /\ req[i].kind = "idle" /\ req'[i].kind = "answer")
             => /\ sessions[req'[i].sid].status = "active"
                /\ EntriesFor(sessions[req'[i].sid].answers, req'[i].qid) # {}
                /\ sessions' = sessions
     /\ (resp'.kind = "answer" /\ req' = req /\ resp'.sid \in Indices(sessions))
        => /\ resp'.code = 400
           /\ sessions' = sessions]_vars

\* an answer was stored while an answer for another question of the same session,
\* loaded before it, is still on its way to its save; the other entry is untouched
C21_Witness ==
  /\ resp.kind = "answer" /\ resp.code = 200
  /\ \E j \in Slots :
       /\ req[j].kind = "answer" /\ req[j].pc = "save"
       /\ req[j].sid = resp.sid /\ req[j].qid # resp.qid
       /\ EntryOf(sessions[resp.sid], req[j].qid).selectedAnswer = Null
  /\ EntryOf(sessions[resp.sid], resp.qid).selectedAnswer = resp.sel
====
